---- MODULE Spec2Model ----
(***************************************************************************)
(* Context-aware log routing of planks-go/slog.                            *)
(*                                                                         *)
(* A heap of handler objects (identity = index in heap) holds base         *)
(* handlers, contextAwareHandler instances ("routers") and user handlers   *)
(* that forward to another handler.  A log call is executed frame by       *)
(* frame: every handler entered is appended to call.path, a base handler   *)
(* emits the record, and the outcome is handed back through the frames.    *)
(***************************************************************************)
EXTENDS Naturals, Integers, Sequences, FiniteSets, TLC

\* ------------------------------------------------------------------ bounds
MaxHandlers == 4   \* handler objects that may be allocated
MaxCalls    == 3   \* Handle calls issued by the application
MaxDepth    == 4   \* frames of one call (a looping call is cut here)

\* ------------------------------------------------------------ value domains
\* slog.LevelInfo = 0, slog.LevelWarn = 4
Levels == {0, 4}
AttrKeys == {"a"}
GroupNames == {"g"}
\* the tests log at slog.LevelInfo (defaultLogger.Info / InfoContext)
RecordLevel == CHOOSE l \in Levels : \A m \in Levels : l <= m
BaseKinds == {"slog", "buffer"}
NoHandler == 0

\* type ContextLoggerKey struct{}: the one key the router looks up
ContextLoggerKey == "ContextLoggerKey"
OtherKey == "some-key"

\* ---------------------------------------------------------------- contexts
\* A context is nil or a chain of WithValue bindings above Background().
NilCtx == [isnil |-> TRUE, vals |-> <<>>]
Background == [isnil |-> FALSE, vals |-> <<>>]

\* the values an application can store under a key
NilValue == [t |-> "nil", h |-> NoHandler]
LoggerValue(h) == [t |-> "logger", h |-> h]
NilLoggerPtr == [t |-> "nilptr", h |-> NoHandler]
NotALogger == [t |-> "string", h |-> NoHandler]

Values(n) == {NilValue, NilLoggerPtr, NotALogger} \cup {LoggerValue(h) : h \in 1..n}

Bindings(n) ==
    {[key |-> ContextLoggerKey, val |-> v] : v \in Values(n)}
        \cup {[key |-> OtherKey, val |-> NotALogger]}

\* context.WithValue(parent, key, val)
WithValue(parent, key, val) ==
    [isnil |-> FALSE, vals |-> Append(parent.vals, [key |-> key, val |-> val])]

\* the contexts an application passes when n handlers exist: nil,
\* Background(), and the children of Background() with one value attached
Contexts(n) ==
    {NilCtx, Background} \cup {WithValue(Background, b.key, b.val) : b \in Bindings(n)}

\* a slip of the lookup: the binding farthest from the context wins
CtxValueOutermost(ctx, key) ==
    LET idx == {i \in 1..Len(ctx.vals) : ctx.vals[i].key = key}
    IN  IF idx = {} THEN NilValue
        ELSE ctx.vals[CHOOSE i \in idx : \A j \in idx : i <= j].val

\* ctx.Value(key): the nearest binding of key, nil when there is none
CtxValue(ctx, key) ==
    LET idx == {i \in 1..Len(ctx.vals) : ctx.vals[i].key = key}
    IN  IF idx = {} THEN NilValue
        ELSE ctx.vals[CHOOSE i \in idx : \A j \in idx : j <= i].val

\* ---------------------------------------------------------------- handlers
BaseHandler(kind, level) ==
    [kind |-> kind, internal |-> NoHandler, next |-> NoHandler,
     level |-> level, cfg |-> <<>>]

\* &contextAwareHandler{internal: handler}
newContextAwareHandler(handler) ==
    [kind |-> "router", internal |-> handler, next |-> NoHandler,
     level |-> 0, cfg |-> <<>>]

\* a user handler that forwards every call, with the same context, to next
ForwardHandler(next) ==
    [kind |-> "forward", internal |-> NoHandler, next |-> next,
     level |-> 0, cfg |-> <<>>]

\* ------------------------------------------------------------- environment
\* Strings that the program inspects are sequences of characters.
UpperLetters == <<"A","B","C","D","E","F","G","H","I","J","K","L","M",
                  "N","O","P","Q","R","S","T","U","V","W","X","Y","Z">>
LowerLetters == <<"a","b","c","d","e","f","g","h","i","j","k","l","m",
                  "n","o","p","q","r","s","t","u","v","w","x","y","z">>
OctalDigits == <<"0","1","2","3","4","5","6","7">>

IndexIn(seq, c) == IF \E i \in 1..Len(seq) : seq[i] = c
                   THEN CHOOSE i \in 1..Len(seq) : seq[i] = c ELSE 0

\* a slip of the normalisation: the case is kept
KeepCase(s) == s

\* strings.ToLower
ToLower(s) ==
    [i \in 1..Len(s) |->
        IF IndexIn(UpperLetters, s[i]) # 0 THEN LowerLetters[IndexIn(UpperLetters, s[i])]
        ELSE s[i]]

\* strings.ToUpper, as slog.Level.UnmarshalText applies it
ToUpper(s) ==
    [i \in 1..Len(s) |->
        IF IndexIn(LowerLetters, s[i]) # 0 THEN UpperLetters[IndexIn(LowerLetters, s[i])]
        ELSE s[i]]

RECURSIVE Join(_)
Join(s) == IF s = <<>> THEN "" ELSE Head(s) \o Join(Tail(s))

\* a slip of the level parsing: an unknown name is taken as INFO
ParseLevelLenient(s) ==
    IF ToUpper(s) = <<"D","E","B","U","G">> THEN [ok |-> TRUE, level |-> -4]
    ELSE [ok |-> TRUE, level |-> 0]

\* slog.Level.UnmarshalText: DEBUG, INFO, WARN, ERROR in any case
ParseLevel(s) ==
    LET u == ToUpper(s)
    IN  IF u = <<"D","E","B","U","G">> THEN [ok |-> TRUE, level |-> -4]
        ELSE IF u = <<"I","N","F","O">> THEN [ok |-> TRUE, level |-> 0]
        ELSE IF u = <<"W","A","R","N">> THEN [ok |-> TRUE, level |-> 4]
        ELSE IF u = <<"E","R","R","O","R">> THEN [ok |-> TRUE, level |-> 8]
        ELSE [ok |-> FALSE, level |-> 0]

\* strconv.ParseUint(s, 8, 32); strings of more than ten octal digits (2^30
\* and above) are cut off as out of range, the environments here have three
RECURSIVE OctalValue(_)
OctalValue(s) ==
    IF s = <<>> THEN 0
    ELSE 8 * OctalValue(SubSeq(s, 1, Len(s) - 1)) + (IndexIn(OctalDigits, s[Len(s)]) - 1)

ParseUint(s) ==
    IF s = <<>> \/ \E i \in 1..Len(s) : IndexIn(OctalDigits, s[i]) = 0
    THEN [ok |-> FALSE, val |-> 0]
    ELSE IF Len(s) > 10 THEN [ok |-> FALSE, val |-> 0]
    ELSE [ok |-> TRUE, val |-> OctalValue(s)]

\* a slip of the defaults: json instead of text
DefaultHandlerJson == <<"j","s","o","n">>

\* Default values for the logger configuration.
DefaultHandlerType == <<"t","e","x","t">>
DefaultWriterType == <<"s","t","d","e","r","r">>
DefaultFilePerm == 420   \* 0644

\* Environment variable names used for configuration.
EnvLoggerLevel == "LOGGER_LEVEL"
EnvLoggerAddSource == "LOGGER_ADD_SOURCE"
EnvLoggerHandler == "LOGGER_HANDLER"
EnvLoggerWriter == "LOGGER_WRITER"
EnvLoggerWriterFilePath == "LOGGER_WRITER_FILE_PATH"
EnvLoggerWriterNoAppend == "LOGGER_WRITER_FILE_NO_APPEND"
EnvLoggerWriterFilePerm == "LOGGER_WRITER_FILE_PERM"
EnvPlanksNoPanicOnError == "PLANKS_NO_PANIC_ON_ERROR"
EnvPlanksEnvPrefix == "PLANKS_ENV_PREFIX"

\* the envVars slice of isAnyLoggerEnvVarSet
LoggerEnvVars ==
    <<EnvLoggerLevel, EnvLoggerAddSource, EnvLoggerHandler, EnvLoggerWriter,
      EnvLoggerWriterFilePath, EnvLoggerWriterNoAppend, EnvLoggerWriterFilePerm>>

\* os.Getenv: the empty string when the variable is not set
Getenv(e, name) == IF name \in DOMAIN e THEN e[name] ELSE <<>>

\* a slip of getEnv: the unprefixed variable is a fallback
getEnvFallback(e, prefix, key) ==
    IF prefix # <<>> /\ Getenv(e, Join(prefix) \o "_" \o key) # <<>>
    THEN Getenv(e, Join(prefix) \o "_" \o key)
    ELSE Getenv(e, key)

\* func getEnv(prefix, key string) string
getEnv(e, prefix, key) ==
    IF prefix # <<>> THEN Getenv(e, Join(prefix) \o "_" \o key)
    ELSE Getenv(e, key)

\* a slip of the check: the three file variables are left out
isAnyCoreEnvVarSet(e, prefix) ==
    \E i \in 1..4 : getEnv(e, prefix, LoggerEnvVars[i]) # <<>>

\* func isAnyLoggerEnvVarSet(prefix string) bool
isAnyLoggerEnvVarSet(e, prefix) ==
    \E i \in 1..Len(LoggerEnvVars) : getEnv(e, prefix, LoggerEnvVars[i]) # <<>>

\* func isValidHandlerType(handlerType string) bool
isValidHandlerType(handlerType) ==
    handlerType \in {<<"j","s","o","n">>, <<"t","e","x","t">>,
                     <<"d","i","s","c","a","r","d">>}

\* func isValidWriterType(writerType string) bool
isValidWriterType(writerType) ==
    writerType \in {<<"s","t","d","o","u","t">>, <<"s","t","d","e","r","r">>,
                    <<"f","i","l","e">>}

\* the zero Config, standing for a nil *Config as well
ZeroConfig ==
    [Level |-> 0, AddSource |-> FALSE, HandlerType |-> <<>>, WriterType |-> <<>>,
     WriterFilePath |-> <<>>, WriterFileNoAppend |-> FALSE, WriterFilePerm |-> 0,
     NoPanicOnError |-> FALSE]

NoError == "nil"
ConfigResult(isnil, config, err) == [isnil |-> isnil, config |-> config, err |-> err]

\* func ReadConfig() (*Config, error)
ReadConfig(e) ==
    LET prefix == Getenv(e, EnvPlanksEnvPrefix)
        noPanicOnError == Getenv(e, EnvPlanksNoPanicOnError) # <<>>
        c0 == [ZeroConfig EXCEPT !.HandlerType = DefaultHandlerType,
                                 !.WriterType = DefaultWriterType,
                                 !.WriterFilePerm = DefaultFilePerm,
                                 !.NoPanicOnError = noPanicOnError]
        levelStr == getEnv(e, prefix, EnvLoggerLevel)
        c1 == IF levelStr # <<>> THEN [c0 EXCEPT !.Level = ParseLevel(levelStr).level]
              ELSE c0
        c2 == [c1 EXCEPT !.AddSource = getEnv(e, prefix, EnvLoggerAddSource) # <<>>]
        handlerType == ToLower(getEnv(e, prefix, EnvLoggerHandler))
        c3 == IF handlerType # <<>> THEN [c2 EXCEPT !.HandlerType = handlerType] ELSE c2
        writerType == ToLower(getEnv(e, prefix, EnvLoggerWriter))
        c4 == IF writerType # <<>> THEN [c3 EXCEPT !.WriterType = writerType] ELSE c3
        filePath == getEnv(e, prefix, EnvLoggerWriterFilePath)
        permStr == getEnv(e, prefix, EnvLoggerWriterFilePerm)
        c5 == [c4 EXCEPT !.WriterFilePath = filePath,
                         !.WriterFileNoAppend =
                             getEnv(e, prefix, EnvLoggerWriterNoAppend) # <<>>]
        c6 == IF permStr # <<>> THEN [c5 EXCEPT !.WriterFilePerm = ParseUint(permStr).val]
              ELSE c5
    IN  IF ~isAnyLoggerEnvVarSet(e, prefix)
        THEN ConfigResult(TRUE, ZeroConfig, NoError)
        ELSE IF levelStr # <<>> /\ ~ParseLevel(levelStr).ok
        THEN ConfigResult(TRUE, ZeroConfig, "ErrInvalidLevel")
        ELSE IF handlerType # <<>> /\ ~isValidHandlerType(handlerType)
        THEN ConfigResult(TRUE, ZeroConfig, "ErrInvalidHandlerType")
        ELSE IF writerType # <<>> /\ ~isValidWriterType(writerType)
        THEN ConfigResult(TRUE, ZeroConfig, "ErrInvalidWriterType")
        ELSE IF c4.WriterType = <<"f","i","l","e">>
        THEN IF filePath = <<>>
             THEN ConfigResult(TRUE, ZeroConfig, "ErrMissingFilePath")
             ELSE IF permStr # <<>> /\ ~ParseUint(permStr).ok
             THEN ConfigResult(TRUE, ZeroConfig, "ErrInvalidFilePermission")
             ELSE ConfigResult(FALSE, c6, NoError)
        ELSE ConfigResult(FALSE, c4, NoError)


\* ------------------------------------------------- environments under test
\* the prefix of the README example: PLANKS_ENV_PREFIX=APP
AppPrefix == <<"A","P","P">>

LevelVals == {<<>>, <<"D","e","b","u","g">>, <<"l","o","u","d">>}
FlagVals == {<<>>, <<"1">>}
HandlerVals == {<<>>, <<"J","S","O","N">>, <<"d","i","s","c","a","r","d">>, <<"x","m","l">>}
WriterVals == {<<>>, <<"s","t","d","o","u","t">>, <<"F","i","l","e">>, <<"p","i","p","e">>}
PathVals == {<<>>, <<"/","a">>}
PermVals == {<<>>, <<"6","0","0">>, <<"9">>}

\* one value for each of the seven logger variables, in LoggerEnvVars order
Settings == LevelVals \X FlagVals \X HandlerVals \X WriterVals \X PathVals \X FlagVals \X PermVals
Unset == <<<<>>, <<>>, <<>>, <<>>, <<>>, <<>>, <<>>>>
Decoy == <<<<"l","o","u","d">>, <<"1">>, <<"x","m","l">>, <<"p","i","p","e">>,
           <<"/","b">>, <<"1">>, <<"9">>>>

PrefixedName(prefix, key) == Join(prefix) \o "_" \o key
VarIndex(names, n) == CHOOSE i \in 1..Len(names) : names[i] = n
PlainNames == {LoggerEnvVars[i] : i \in 1..Len(LoggerEnvVars)}
AppNames == {PrefixedName(AppPrefix, LoggerEnvVars[i]) : i \in 1..Len(LoggerEnvVars)}
EnvNames == {EnvPlanksNoPanicOnError, EnvPlanksEnvPrefix} \cup PlainNames \cup AppNames

\* os.Setenv for every variable: plain holds the values of LOGGER_*, app
\* the values of APP_LOGGER_*
MkEnv(prefix, nopanic, plain, app) ==
    [n \in EnvNames |->
        IF n = EnvPlanksEnvPrefix THEN prefix
        ELSE IF n = EnvPlanksNoPanicOnError THEN nopanic
        ELSE IF n \in PlainNames THEN plain[VarIndex(LoggerEnvVars, n)]
        ELSE app[CHOOSE i \in 1..Len(LoggerEnvVars) :
                    PrefixedName(AppPrefix, LoggerEnvVars[i]) = n]]

\* no variable set at all
NoEnv == <<>>

Envs ==
    {MkEnv(p, np, s, d) : p \in {<<>>, AppPrefix}, np \in FlagVals,
                          s \in Settings, d \in {Unset, Decoy}}
      \cup {MkEnv(p, np, d, s) : p \in {<<>>, AppPrefix}, np \in FlagVals,
                                 s \in Settings, d \in {Unset, Decoy}}

\* environments that only choose the handler type
HandlerEnvs ==
    {MkEnv(<<>>, <<>>, <<<<>>, <<>>, h, <<>>, <<>>, <<>>, <<>>>>, Unset) : h \in HandlerVals}


VARIABLES
    heap,      \* sequence of handler objects; the index is the reference
    logs,      \* logs[h]: number of records base handler h has written
    call,      \* the log call in progress or last completed
    tally,     \* what the application has asked for so far (Handle calls)
    derived,   \* the last WithAttrs / WithGroup call and what it returned
    env,       \* the process environment: variable name -> value
    deflt,     \* the handler of the logger slog.Default() returns
    out        \* what the last ReadConfig / Build / Init / FromContext call gave

vars == <<heap, logs, call, tally, derived, env, deflt, out>>

IsRouter(hp, h) == hp[h].kind = "router"
IsBase(hp, h) == hp[h].kind \in BaseKinds
Routers == {h \in 1..Len(heap) : IsRouter(heap, h)}
Bases == {h \in 1..Len(heap) : IsBase(heap, h)}

\* --------------------------------------------- derivation of base handlers
\* WithAttrs / WithGroup of the wrapped handler.  A slog Text/JSON handler
\* returns a new handler with the item added; testBufferHandler returns
\* itself.  The result is [heap |-> the heap afterwards, ret |-> the handler].
BaseDerive(hp, b, item) ==
    IF hp[b].kind = "slog"
    THEN [heap |-> Append(hp, [hp[b] EXCEPT !.cfg = Append(@, item)]),
          ret |-> Len(hp) + 1]
    ELSE [heap |-> hp, ret |-> b]

AttrItem(k) == [t |-> "attr", v |-> k]
GroupItem(g) == [t |-> "group", v |-> g]

\* ------------------------------------------------------------- the router
\* plausible slips of WithAttrs, used to test the claims about derivation
WithAttrsInPlace(hp, h, attrs) ==
    LET d == BaseDerive(hp, hp[h].internal, AttrItem(attrs))
    IN  [heap |-> [d.heap EXCEPT ![h].internal = d.ret], ret |-> h]

WithAttrsBare(hp, h, attrs) ==
    LET d == BaseDerive(hp, hp[h].internal, AttrItem(attrs))
    IN  [heap |-> Append(d.heap, newContextAwareHandler(d.ret)), ret |-> d.ret]

\* a slip of WithAttrs: the new router wraps the receiver, not the derived
\* internal handler
WithAttrsWrapReceiver(hp, h, attrs) ==
    [heap |-> Append(hp, newContextAwareHandler(h)), ret |-> Len(hp) + 1]

\* func (h *contextAwareHandler) WithAttrs(attrs []slog.Attr) slog.Handler
WithAttrsOf(hp, h, attrs) ==
    LET d == BaseDerive(hp, hp[h].internal, AttrItem(attrs))
    IN  [heap |-> Append(d.heap, newContextAwareHandler(d.ret)),
         ret |-> Len(d.heap) + 1]

\* func (h *contextAwareHandler) WithGroup(name string) slog.Handler
WithGroupOf(hp, h, name) ==
    LET d == BaseDerive(hp, hp[h].internal, GroupItem(name))
    IN  [heap |-> Append(d.heap, newContextAwareHandler(d.ret)),
         ret |-> Len(d.heap) + 1]

\* slips of the resolution, used to test the claims about delegation
TargetAlwaysInternal(hp, h, ctx) == hp[h].internal

TargetNoGuard(hp, h, ctx) ==
    IF ~ctx.isnil /\ CtxValue(ctx, ContextLoggerKey).t = "logger"
    THEN CtxValue(ctx, ContextLoggerKey).h
    ELSE hp[h].internal

TargetStructuralGuard(hp, h, ctx) ==
    IF ~ctx.isnil /\ CtxValue(ctx, ContextLoggerKey).t = "logger"
    THEN LET contextHandler == CtxValue(ctx, ContextLoggerKey).h
         IN  IF hp[contextHandler] # hp[h] THEN contextHandler ELSE hp[h].internal
    ELSE hp[h].internal

TargetSelfFallback(hp, h, ctx) ==
    IF ~ctx.isnil /\ CtxValue(ctx, ContextLoggerKey).t = "logger"
          /\ CtxValue(ctx, ContextLoggerKey).h # h
    THEN CtxValue(ctx, ContextLoggerKey).h
    ELSE h

\* a slip of the resolution: a value that is no usable logger sends the
\* call back to the router itself
TargetBadValueSelf(hp, h, ctx) ==
    IF ~ctx.isnil /\ CtxValue(ctx, ContextLoggerKey) # NilValue
    THEN IF CtxValue(ctx, ContextLoggerKey).t = "logger"
         THEN IF CtxValue(ctx, ContextLoggerKey).h # h
              THEN CtxValue(ctx, ContextLoggerKey).h ELSE hp[h].internal
         ELSE h
    ELSE hp[h].internal

\* The handler Enabled hands the call to (part_001 lines 67-80).
EnabledTarget(hp, h, ctx) ==
    IF ~ctx.isnil
    THEN LET loggerValue == CtxValue(ctx, ContextLoggerKey)
         IN  IF loggerValue # NilValue
             THEN IF loggerValue.t \in {"logger", "nilptr"} /\ loggerValue.t # "nilptr"
                  THEN LET contextHandler == loggerValue.h
                       IN  IF contextHandler # h THEN contextHandler
                           ELSE hp[h].internal
                  ELSE hp[h].internal
             ELSE hp[h].internal
    ELSE hp[h].internal

\* The handler Handle hands the record to (part_001 lines 83-96).
HandleTarget(hp, h, ctx) ==
    IF ~ctx.isnil
    THEN LET loggerValue == CtxValue(ctx, ContextLoggerKey)
         IN  IF loggerValue # NilValue
             THEN IF loggerValue.t \in {"logger", "nilptr"} /\ loggerValue.t # "nilptr"
                  THEN LET contextHandler == loggerValue.h
                       IN  IF contextHandler # h THEN contextHandler
                           ELSE hp[h].internal
                  ELSE hp[h].internal
             ELSE hp[h].internal
    ELSE hp[h].internal

\* what a router hands back to its caller: the callee's outcome as it is
WrapOutcome(res) == [t |-> res.t, v |-> "wrapped"]
SwallowOutcome(res) == [t |-> res.t, v |-> IF res.t = "err" THEN "nil" ELSE res.v]
RouterReturn(res) == res

\* ------------------------------------------------------------------ calls
NoResult == [t |-> "none", v |-> "none"]
NilErr == [t |-> "err", v |-> "nil"]
WriteErr == [t |-> "err", v |-> "write failed"]
BoolResult(b) == [t |-> "bool", v |-> IF b THEN "true" ELSE "false"]

IdleCall ==
    [st |-> "idle", op |-> "none", ctx |-> NilCtx, level |-> 0,
     path |-> <<>>, sp |-> 0, emits |-> <<>>, leaf |-> NoResult, result |-> NoResult]

NoTally == [n |-> 0, clean |-> TRUE, via |-> NoHandler, ovh |-> NoHandler,
            int |-> 0, ov |-> 0]
NoDerived == [op |-> "none", recv |-> NoHandler, arg |-> "", ret |-> NoHandler,
              was |-> NoHandler, isnew |-> FALSE]

HasOverride(ctx) == ~ctx.isnil /\ CtxValue(ctx, ContextLoggerKey) # NilValue
Override(ctx) == CtxValue(ctx, ContextLoggerKey)

Pad(lg, n) == [h \in 1..n |-> IF h <= Len(lg) THEN lg[h] ELSE 0]

Top == call.path[Len(call.path)]
Frame(h, ctx, level) == [h |-> h, ctx |-> ctx, level |-> level]

\* a slip of the delegation: a nil context is replaced by Background()
DelegateBackground(target, f) ==
    Frame(target, IF f.ctx.isnil THEN Background ELSE f.ctx, f.level)

\* target.Handle(ctx, r) / target.Enabled(ctx, level): the callee's frame
\* gets the arguments of the caller's frame
Delegate(target, f) == Frame(target, f.ctx, f.level)

\* the application's bookkeeping of one more Handle call on router r with ctx
Tallied(t, r, ctx) ==
    LET internalKind == ~HasOverride(ctx)
        ovKind == /\ HasOverride(ctx)
                  /\ Override(ctx).t = "logger"
                  /\ IsBase(heap, Override(ctx).h)
                  /\ Override(ctx).h # heap[r].internal
        sameVia == t.via \in {NoHandler, r}
        sameOv == ovKind /\ t.ovh \in {NoHandler, Override(ctx).h}
    IN  IF t.clean /\ sameVia /\ (internalKind \/ sameOv)
        THEN [n |-> t.n + 1, clean |-> TRUE, via |-> r,
              ovh |-> IF ovKind THEN Override(ctx).h ELSE t.ovh,
              int |-> IF internalKind THEN t.int + 1 ELSE t.int,
              ov |-> IF ovKind THEN t.ov + 1 ELSE t.ov]
        ELSE [n |-> t.n + 1, clean |-> FALSE, via |-> NoHandler,
              ovh |-> NoHandler, int |-> 0, ov |-> 0]

\* ---------------------------------------------------------- configuration
NoOut ==
    [op |-> "none", isnil |-> TRUE, config |-> ZeroConfig, err |-> NoError,
     logger |-> NoHandler, opened |-> "none", panicked |-> FALSE,
     was |-> NoHandler, ctx |-> NilCtx]

\* func createWriter(config *Config) (io.Writer, error); openOk tells
\* whether os.OpenFile succeeds
createWriter(config, openOk) ==
    IF config.WriterType = <<"s","t","d","o","u","t">>
    THEN [writer |-> "stdout", err |-> NoError, opened |-> "none"]
    ELSE IF config.WriterType = <<"s","t","d","e","r","r">>
    THEN [writer |-> "stderr", err |-> NoError, opened |-> "none"]
    ELSE IF config.WriterType = <<"f","i","l","e">>
    THEN IF openOk THEN [writer |-> "file", err |-> NoError, opened |-> "ok"]
         ELSE [writer |-> "none", err |-> "ErrOpenFile", opened |-> "failed"]
    ELSE [writer |-> "stderr", err |-> NoError, opened |-> "none"]

\* slog.DiscardHandler: one package-level handler value
DiscardHandler ==
    [kind |-> "discard", internal |-> NoHandler, next |-> NoHandler,
     level |-> 0, cfg |-> <<>>]

\* a slip of createHandler: the json / text handler is returned unwrapped
createHandlerBare(hp, config, w) ==
    [heap |-> Append(hp, BaseHandler("slog", config.Level)), ret |-> Len(hp) + 1]

\* func createHandler(config *Config, w io.Writer) slog.Handler
createHandler(hp, config, w) ==
    IF config.HandlerType = <<"d","i","s","c","a","r","d">>
    THEN IF \E h \in 1..Len(hp) : hp[h].kind = "discard"
         THEN [heap |-> hp, ret |-> CHOOSE h \in 1..Len(hp) : hp[h].kind = "discard"]
         ELSE [heap |-> Append(hp, DiscardHandler), ret |-> Len(hp) + 1]
    ELSE [heap |-> hp \o <<BaseHandler("slog", config.Level),
                            newContextAwareHandler(Len(hp) + 1)>>,
          ret |-> Len(hp) + 2]

BuildResult(hp, logger, err, opened) ==
    [heap |-> hp, logger |-> logger, err |-> err, opened |-> opened]

\* Build after createHandler: return slog.New(handler), nil
BuildLogger(h, w) == BuildResult(h.heap, h.ret, NoError, w.opened)

\* Build after createWriter: its error is returned, else the handler is made
BuildWriter(rc, w, hp) ==
    IF w.err # NoError THEN BuildResult(hp, NoHandler, w.err, w.opened)
    ELSE BuildLogger(createHandler(hp, rc.config, w.writer), w)

\* a slip of Build: nothing configured is reported as (nil, nil)
BuildSilent(rc, hp, openOk) ==
    IF rc.err # NoError THEN BuildResult(hp, NoHandler, rc.err, "none")
    ELSE IF rc.isnil THEN BuildResult(hp, NoHandler, NoError, "none")
    ELSE BuildWriter(rc, createWriter(rc.config, openOk), hp)

\* Build after ReadConfig returned rc
BuildConfig(rc, hp, openOk) ==
    IF rc.err # NoError THEN BuildResult(hp, NoHandler, rc.err, "none")
    ELSE IF rc.isnil THEN BuildResult(hp, NoHandler, "ErrNoEnvVarSet", "none")
    ELSE BuildWriter(rc, createWriter(rc.config, openOk), hp)

\* func Build() (*slog.Logger, error); slog.New(handler) is the handler's id
Build(e, hp, openOk) == BuildConfig(ReadConfig(e), hp, openOk)

InitResult(b, d, panicked) ==
    [heap |-> b.heap, logger |-> b.logger, err |-> b.err, opened |-> b.opened,
     deflt |-> d, panicked |-> panicked]

\* a slip of Init: an error never panics
InitQuiet(b, nopanic, d) ==
    IF b.err # NoError /\ b.err # "ErrNoEnvVarSet" THEN InitResult(b, d, FALSE)
    ELSE IF b.logger # NoHandler THEN InitResult(b, b.logger, FALSE)
    ELSE InitResult(b, d, FALSE)

\* a slip of Init: the default logger is set whatever Build returned
InitEager(b, nopanic, d) ==
    IF b.err # NoError /\ b.err # "ErrNoEnvVarSet"
    THEN IF nopanic # <<>> THEN InitResult(b, d, FALSE)
         ELSE InitResult(b, d, TRUE)
    ELSE InitResult(b, b.logger, FALSE)

\* Init after Build returned b; nopanic is PLANKS_NO_PANIC_ON_ERROR and d
\* the handler of the default logger before the call
InitBuild(b, nopanic, d) ==
    IF b.err # NoError /\ b.err # "ErrNoEnvVarSet"
    THEN IF nopanic # <<>> THEN InitResult(b, d, FALSE)
         ELSE InitResult(b, d, TRUE)
    ELSE IF b.logger # NoHandler THEN InitResult(b, b.logger, FALSE)
    ELSE InitResult(b, d, FALSE)

\* func Init()
InitOf(e, hp, d, openOk) ==
    InitBuild(Build(e, hp, openOk), Getenv(e, EnvPlanksNoPanicOnError), d)

\* func FromContext(ctx context.Context) *slog.Logger; ctx.Value on a nil
\* interface value is a nil dereference
FromContext(ctx, d) ==
    IF ctx.isnil THEN [logger |-> NoHandler, panicked |-> TRUE]
    ELSE IF CtxValue(ctx, ContextLoggerKey) # NilValue
            /\ CtxValue(ctx, ContextLoggerKey).t \in {"logger", "nilptr"}
            /\ CtxValue(ctx, ContextLoggerKey).t # "nilptr"
    THEN [logger |-> CtxValue(ctx, ContextLoggerKey).h, panicked |-> FALSE]
    ELSE [logger |-> d, panicked |-> FALSE]

\* ------------------------------------------------------------------- Init
Init ==
    /\ \E kind \in BaseKinds, level \in Levels :
          heap = <<BaseHandler(kind, IF kind = "slog" THEN level ELSE 0),
                   newContextAwareHandler(1)>>
    /\ logs = <<0, 0>>
    /\ call = IdleCall
    /\ tally = NoTally
    /\ derived = NoDerived
    /\ env = NoEnv
    /\ deflt = 2
    /\ out = NoOut

\* ---------------------------------------------------------------- actions
\* slog.NewTextHandler / newTestBufferHandler: a handler for an override logger
NewHandler ==
    /\ Len(heap) < MaxHandlers
    /\ \E kind \in BaseKinds, level \in Levels :
          heap' = Append(heap, BaseHandler(kind, IF kind = "slog" THEN level ELSE 0))
    /\ logs' = Pad(logs, Len(heap'))
    /\ UNCHANGED <<call, tally, derived, env, deflt, out>>

\* a user handler wrapping an existing handler
NewForwarder ==
    /\ Len(heap) < MaxHandlers
    /\ \E next \in 1..Len(heap) :
          heap' = Append(heap, ForwardHandler(next))
    /\ logs' = Pad(logs, Len(heap'))
    /\ UNCHANGED <<call, tally, derived, env, deflt, out>>

WithAttrs ==
    \E h \in Routers, attrs \in AttrKeys :
       LET d == WithAttrsOf(heap, h, attrs)
       IN  /\ Len(d.heap) <= MaxHandlers
           /\ heap' = d.heap
           /\ logs' = Pad(logs, Len(heap'))
           /\ derived' = [op |-> "WithAttrs", recv |-> h, arg |-> attrs,
                          ret |-> d.ret, was |-> heap[h].internal,
                          isnew |-> d.ret > Len(heap)]
           /\ UNCHANGED <<call, tally, env, deflt, out>>

WithGroup ==
    \E h \in Routers, name \in GroupNames :
       LET d == WithGroupOf(heap, h, name)
       IN  /\ Len(d.heap) <= MaxHandlers
           /\ heap' = d.heap
           /\ logs' = Pad(logs, Len(heap'))
           /\ derived' = [op |-> "WithGroup", recv |-> h, arg |-> name,
                          ret |-> d.ret, was |-> heap[h].internal,
                          isnew |-> d.ret > Len(heap)]
           /\ UNCHANGED <<call, tally, env, deflt, out>>

NewCall(op, r, ctx, level) ==
    [st |-> "run", op |-> op, ctx |-> ctx, level |-> level,
     path |-> <<Frame(r, ctx, level)>>, sp |-> 1, emits |-> <<>>,
     leaf |-> NoResult, result |-> NoResult]

\* the application clears the buffers (README.md lines 953-955) and calls
\* Handle or Enabled on a router
StartCall ==
    /\ call.st \in {"idle", "done"}
    /\ \E op \in {"Handle", "Enabled"}, r \in Routers,
          ctx \in Contexts(Len(heap)), level \in Levels :
          /\ op = "Handle" => level = RecordLevel
          /\ call' = NewCall(op, r, ctx, level)
          /\ tally' = IF op = "Handle" THEN Tallied(NoTally, r, ctx) ELSE NoTally
    /\ logs' = Pad(<<>>, Len(heap))
    /\ UNCHANGED <<heap, derived, env, deflt, out>>

\* one more log call of a sequence, the buffers kept: with no context, with
\* a context without override, or with a context carrying a logger
NextCall ==
    /\ call.st \in {"idle", "done"}
    /\ tally.n < MaxCalls
    /\ \E r \in Routers, level \in {RecordLevel},
          ctx \in {NilCtx, Background}
                    \cup {WithValue(Background, ContextLoggerKey, LoggerValue(h)) :
                             h \in 1..Len(heap)} :
          /\ call' = NewCall("Handle", r, ctx, level)
          /\ tally' = Tallied(tally, r, ctx)
    /\ UNCHANGED <<heap, logs, derived, env, deflt, out>>

\* contextAwareHandler.Handle: resolve the target and call its Handle
Handle ==
    /\ call.st = "run" /\ call.op = "Handle"
    /\ IsRouter(heap, Top.h)
    /\ Len(call.path) < MaxDepth
    /\ call' = [call EXCEPT
                  !.path = Append(@, Delegate(HandleTarget(heap, Top.h, Top.ctx), Top)),
                  !.sp = @ + 1]
    /\ UNCHANGED <<heap, logs, tally, derived, env, deflt, out>>

\* contextAwareHandler.Enabled: resolve the target and call its Enabled
Enabled ==
    /\ call.st = "run" /\ call.op = "Enabled"
    /\ IsRouter(heap, Top.h)
    /\ Len(call.path) < MaxDepth
    /\ call' = [call EXCEPT
                  !.path = Append(@, Delegate(EnabledTarget(heap, Top.h, Top.ctx), Top)),
                  !.sp = @ + 1]
    /\ UNCHANGED <<heap, logs, tally, derived, env, deflt, out>>

\* the forwarding user handler passes the call on with the same arguments
Forward ==
    /\ call.st = "run"
    /\ heap[Top.h].kind = "forward"
    /\ Len(call.path) < MaxDepth
    /\ call' = [call EXCEPT
                  !.path = Append(@, Frame(heap[Top.h].next, Top.ctx, Top.level)),
                  !.sp = @ + 1]
    /\ UNCHANGED <<heap, logs, tally, derived, env, deflt, out>>

\* a base handler writes the record; a slog handler may report a write
\* error; a handler called directly by the application returns to it
BaseHandle ==
    /\ call.st = "run" /\ call.op = "Handle"
    /\ IsBase(heap, Top.h)
    /\ \E outcome \in (IF heap[Top.h].kind = "slog" THEN {NilErr, WriteErr} ELSE {NilErr}) :
          call' = [call EXCEPT
                     !.st = IF call.sp = 1 THEN "done" ELSE "ret",
                     !.emits = Append(@, [h |-> Top.h, cfg |-> heap[Top.h].cfg,
                                          ctx |-> Top.ctx, level |-> Top.level]),
                     !.leaf = outcome,
                     !.result = outcome,
                     !.sp = @ - 1]
    /\ logs' = [logs EXCEPT ![Top.h] = @ + 1]
    /\ UNCHANGED <<heap, tally, derived, env, deflt, out>>

\* a base handler answers Enabled: slog compares with its minimum level,
\* testBufferHandler says true
BaseEnabled ==
    /\ call.st = "run" /\ call.op = "Enabled"
    /\ IsBase(heap, Top.h)
    /\ LET answer == BoolResult(heap[Top.h].kind = "buffer"
                                   \/ Top.level >= heap[Top.h].level)
       IN  call' = [call EXCEPT !.st = IF call.sp = 1 THEN "done" ELSE "ret",
                                !.leaf = answer, !.result = answer,
                                !.sp = @ - 1]
    /\ UNCHANGED <<heap, logs, tally, derived, env, deflt, out>>

\* the frame at sp gets its callee's outcome and returns to its own caller
Return ==
    /\ call.st = "ret"
    /\ call.sp >= 1
    /\ call' = [call EXCEPT
                  !.result = IF IsRouter(heap, call.path[call.sp].h)
                             THEN RouterReturn(call.result) ELSE call.result,
                  !.sp = @ - 1,
                  !.st = IF call.sp = 1 THEN "done" ELSE "ret"]
    /\ UNCHANGED <<heap, logs, tally, derived, env, deflt, out>>

Next ==
    \/ NewHandler
    \/ NewForwarder
    \/ WithAttrs
    \/ WithGroup
    \/ StartCall
    \/ Handle
    \/ Enabled
    \/ Forward
    \/ BaseHandle
    \/ BaseEnabled
    \/ Return

Spec == Init /\ [][Next]_vars

\* the same program with every step of a call in progress eventually taken:
\* the calls are synchronous, nothing suspends a handler
Fairness ==
    /\ WF_vars(Handle) /\ WF_vars(Enabled) /\ WF_vars(Forward)
    /\ WF_vars(BaseHandle) /\ WF_vars(BaseEnabled) /\ WF_vars(Return)

SpecLive == Init /\ [][Next]_vars /\ Fairness

\* a sequence of log calls against buffers that are never cleared
NextSeq ==
    \/ NewHandler
    \/ WithAttrs
    \/ NextCall
    \/ Handle
    \/ BaseHandle
    \/ Return

SpecSeq == Init /\ [][NextSeq]_vars

\* ------------------------------------------- configuration from environment
\* the process starts with Go's stock default logger and some environment
InitCfg ==
    /\ heap = <<BaseHandler("slog", 0)>>
    /\ logs = <<0>>
    /\ call = IdleCall
    /\ tally = NoTally
    /\ derived = NoDerived
    /\ env \in Envs
    /\ deflt = 1
    /\ out = NoOut

CallReadConfig ==
    /\ ~out.panicked
    /\ \E rc \in {ReadConfig(env)} :
          out' = [NoOut EXCEPT !.op = "ReadConfig", !.isnil = rc.isnil,
                               !.config = rc.config, !.err = rc.err, !.was = deflt]
    /\ UNCHANGED <<heap, logs, call, tally, derived, env, deflt>>

CallBuild ==
    /\ ~out.panicked
    /\ call.st \in {"idle", "done"}
    /\ \E openOk \in BOOLEAN : \E b \in {Build(env, heap, openOk)} :
          /\ Len(b.heap) <= MaxHandlers
          /\ heap' = b.heap
          /\ logs' = Pad(logs, Len(heap'))
          /\ out' = [NoOut EXCEPT !.op = "Build", !.logger = b.logger,
                                  !.err = b.err, !.opened = b.opened,
                                  !.was = deflt]
    /\ UNCHANGED <<call, tally, derived, env, deflt>>

\* Init panics or returns; after a panic the process is gone
CallInit ==
    /\ ~out.panicked
    /\ call.st \in {"idle", "done"}
    /\ \E openOk \in BOOLEAN : \E i \in {InitOf(env, heap, deflt, openOk)} :
          /\ Len(i.heap) <= MaxHandlers
          /\ heap' = i.heap
          /\ logs' = Pad(logs, Len(heap'))
          /\ deflt' = i.deflt
          /\ out' = [NoOut EXCEPT !.op = "Init", !.logger = i.logger,
                                  !.err = i.err, !.opened = i.opened,
                                  !.panicked = i.panicked, !.was = deflt]
    /\ UNCHANGED <<call, tally, derived, env>>

NextCfg ==
    \/ CallReadConfig
    \/ CallBuild
    \/ CallInit

SpecCfg == InitCfg /\ [][NextCfg]_vars

\* ------------------------------------------------- loggers from Build
InitBuilt ==
    /\ heap = <<BaseHandler("slog", 0)>>
    /\ logs = <<0>>
    /\ call = IdleCall
    /\ tally = NoTally
    /\ derived = NoDerived
    /\ env \in HandlerEnvs
    /\ deflt = 1
    /\ out = NoOut

\* slog.New(newTestBufferHandler()): a logger an application attaches
NewLogger ==
    /\ Len(heap) < MaxHandlers
    /\ heap' = Append(heap, BaseHandler("buffer", 0))
    /\ logs' = Pad(logs, Len(heap'))
    /\ UNCHANGED <<call, tally, derived, env, deflt, out>>

\* a log call through the logger Build or Init has just returned
StartBuilt ==
    /\ call.st \in {"idle", "done"}
    /\ ~out.panicked
    /\ out.op \in {"Build", "Init"}
    /\ out.logger # NoHandler
    /\ \E ctx \in Contexts(Len(heap)) :
          call' = NewCall("Handle", out.logger, ctx, RecordLevel)
    /\ logs' = Pad(<<>>, Len(heap))
    /\ UNCHANGED <<heap, tally, derived, env, deflt, out>>

\* slog.DiscardHandler: Enabled is false and Handle writes nothing
DiscardHandle ==
    /\ call.st = "run" /\ call.op = "Handle"
    /\ heap[Top.h].kind = "discard"
    /\ call' = [call EXCEPT !.st = IF call.sp = 1 THEN "done" ELSE "ret",
                            !.leaf = NilErr, !.result = NilErr, !.sp = @ - 1]
    /\ UNCHANGED <<heap, logs, tally, derived, env, deflt, out>>

NextBuilt ==
    \/ CallBuild
    \/ CallInit
    \/ NewLogger
    \/ StartBuilt
    \/ Handle
    \/ BaseHandle
    \/ DiscardHandle
    \/ Return

SpecBuilt == InitBuilt /\ [][NextBuilt]_vars

\* ------------------------------------------------------------- FromContext
CallFromContext ==
    /\ ~out.panicked
    /\ \E ctx \in Contexts(Len(heap)) : \E r \in {FromContext(ctx, deflt)} :
          out' = [NoOut EXCEPT !.op = "FromContext", !.logger = r.logger,
                               !.panicked = r.panicked, !.was = deflt,
                               !.ctx = ctx]
    /\ UNCHANGED <<heap, logs, call, tally, derived, env, deflt>>

NextFrom ==
    \/ NewLogger
    \/ CallInit
    \/ CallFromContext

SpecFrom == InitBuilt /\ [][NextFrom]_vars

\* ------------------------------------------------------ context hierarchies
\* what processRequest / doSomething attach: a logger, or some other key
TreeBindings(n) ==
    {[key |-> ContextLoggerKey, val |-> LoggerValue(h)] : h \in 1..n}
        \cup {[key |-> OtherKey, val |-> NotALogger]}

Children(cs, n) == {WithValue(c, b.key, b.val) : c \in cs, b \in TreeBindings(n)}

\* nil, Background(), its children, grandchildren and great-grandchildren
DeepContexts(n) ==
    LET c1 == Children({Background}, n)
        c2 == Children(c1, n)
        c3 == Children(c2, n)
    IN  {NilCtx, Background} \cup c1 \cup c2 \cup c3

StartDeep ==
    /\ call.st \in {"idle", "done"}
    /\ \E op \in {"Handle", "Enabled"}, r \in Routers,
          ctx \in DeepContexts(Len(heap)), level \in Levels :
          call' = NewCall(op, r, ctx, level)
    /\ logs' = Pad(<<>>, Len(heap))
    /\ UNCHANGED <<heap, tally, derived, env, deflt, out>>

NextCtx ==
    \/ NewLogger
    \/ StartDeep
    \/ Handle
    \/ Enabled
    \/ BaseHandle
    \/ BaseEnabled
    \/ Return

SpecCtx == Init /\ [][NextCtx]_vars

\* ------------------------------------------- calls racing with derivations
\* a call that remembers how many handlers existed and which handler the
\* router wrapped when the call began
StartConc ==
    /\ call.st \in {"idle", "done"}
    /\ \E op \in {"Handle", "Enabled"}, r \in Routers,
          ctx \in Contexts(Len(heap)), level \in Levels :
          /\ op = "Handle" => level = RecordLevel
          /\ call' = NewCall(op, r, ctx, level)
                        @@ [since |-> Len(heap), internal |-> heap[r].internal]
    /\ logs' = Pad(<<>>, Len(heap))
    /\ UNCHANGED <<heap, tally, derived, env, deflt, out>>

NextConc ==
    \/ WithAttrs
    \/ WithGroup
    \/ StartConc
    \/ Handle
    \/ Enabled
    \/ BaseHandle
    \/ BaseEnabled
    \/ Return

SpecConc == Init /\ [][NextConc]_vars

\* ----------------------------------------------------------------- claims
Active == call.st # "idle"
Done == call.st = "done"
Root == call.path[1].h
OverrideIsLogger == Active /\ HasOverride(call.ctx) /\ Override(call.ctx).t = "logger"
OvH == Override(call.ctx).h
Entered(h) == {i \in 1..Len(call.path) : call.path[i].h = h}
OnlyLog(h) == \A g \in 1..Len(heap) : logs[g] = IF g = h THEN 1 ELSE 0

\* C1: a Handle call on a router with a nil context or a context without
\* override is handed to the router's internal handler only, and when the
\* call has completed that handler has written the record exactly once and
\* no other handler has written anything.
C1_NoOverrideToInternal ==
    (Active /\ call.op = "Handle" /\ ~HasOverride(call.ctx)) =>
        /\ Len(call.path) <= 2
        /\ Len(call.path) = 2 => call.path[2].h = heap[Root].internal
        /\ \A i \in 1..Len(call.emits) : call.emits[i].h = heap[Root].internal
        /\ Done => Len(call.emits) = 1 /\ OnlyLog(heap[Root].internal)

C1_Witness ==
    /\ Done /\ call.op = "Handle"
    /\ call.ctx = Background
    /\ Len(heap) >= 3
    /\ logs[heap[Root].internal] = 1

\* C2 as stated: a Handle call on router R with a distinct override handler
\* lands in the override handler and R's internal handler receives no call.
C2_InternalReceivesNothing ==
    (Done /\ call.op = "Handle" /\ OverrideIsLogger /\ OvH # Root) =>
        /\ call.path[2].h = OvH
        /\ logs[heap[Root].internal] = 0

\* C2 amended: on a Handle call with a distinct override handler H, every
\* delegation router R makes goes to H and never to R's internal handler;
\* when the call completes the record has been written exactly once, by H
\* if H is a base handler and by H's internal handler if H is a router
\* (which is R's internal handler when the two routers share it).
C2_DelegatesToOverride ==
    (call.op = "Handle" /\ OverrideIsLogger /\ OvH # Root) =>
        /\ \A i \in 1..(Len(call.path) - 1) :
              call.path[i].h = Root => call.path[i + 1].h = OvH
        /\ Done =>
              /\ Len(call.emits) = 1
              /\ IsBase(heap, OvH) => OnlyLog(OvH)
              /\ IsRouter(heap, OvH) => OnlyLog(heap[OvH].internal)

C2_Witness ==
    /\ Done /\ call.op = "Handle" /\ OverrideIsLogger /\ OvH # Root
    /\ IsRouter(heap, OvH)
    /\ heap[OvH].internal = heap[Root].internal
    /\ logs[heap[Root].internal] = 1

\* C3: when the override logger's handler is the router itself (the same
\* object), Handle and Enabled go to the router's internal handler and the
\* call ends there; another router that merely wraps the same internal
\* handler is not taken for the router itself and is delegated to.
C3_IdentityGuard ==
    OverrideIsLogger =>
        /\ OvH = Root =>
              /\ Len(call.path) <= 2
              /\ Len(call.path) = 2 => call.path[2].h = heap[Root].internal
        /\ (OvH # Root /\ heap[OvH] = heap[Root]) =>
              (Len(call.path) >= 2 => call.path[2].h = OvH)

C3_Witness ==
    /\ Done /\ OverrideIsLogger /\ OvH = Root
    /\ call.path[2].h = heap[Root].internal
    /\ \E r \in Routers : r # Root /\ heap[r] = heap[Root]

C3_WitnessTwin ==
    /\ Done /\ OverrideIsLogger /\ OvH # Root /\ heap[OvH] = heap[Root]

\* C4: during one log call no router is entered twice.
C4_NeverReentered ==
    \A r \in Routers : Cardinality(Entered(r)) <= 1

\* C5: for every router and every context, Enabled and Handle resolve to
\* the same handler, and the call in progress went to that handler.
C5_SameTarget ==
    /\ \A r \in Routers, ctx \in Contexts(Len(heap)) :
          EnabledTarget(heap, r, ctx) = HandleTarget(heap, r, ctx)
    /\ (Active /\ Len(call.path) >= 2) =>
          /\ call.path[2].h = EnabledTarget(heap, Root, call.ctx)
          /\ call.path[2].h = HandleTarget(heap, Root, call.ctx)

C5_Witness ==
    /\ Done /\ call.op = "Enabled" /\ OverrideIsLogger /\ OvH # Root
    /\ call.path[2].h = OvH

\* C6: after a sequence of log calls through one router wrapping A, each
\* with no context, a context without override, or a context whose
\* override logger is backed by base handler B, A has written as many
\* records as there were calls of the first two kinds and B as many as
\* there were calls of the third kind.
C6_Counts ==
    (call.st \in {"idle", "done"} /\ tally.clean /\ tally.via # NoHandler) =>
        /\ logs[heap[tally.via].internal] = tally.int
        /\ tally.ovh # NoHandler => logs[tally.ovh] = tally.ov
        /\ \A h \in 1..Len(heap) :
              h \notin {heap[tally.via].internal, tally.ovh} => logs[h] = 0

C6_Witness ==
    /\ Done /\ tally.clean
    /\ tally.int = 2 /\ tally.ov = 1
    /\ logs[heap[tally.via].internal] = 2 /\ logs[tally.ovh] = 1

\* C7: what Handle on the router returns is the outcome of the handler that
\* wrote the record, nil or the same error, on either branch.
C7_OutcomeUnchanged ==
    (call.op = "Handle" /\ call.st \in {"ret", "done"}) => call.result = call.leaf

C7_Witness ==
    /\ Done /\ call.op = "Handle" /\ OverrideIsLogger /\ OvH # Root
    /\ call.result = WriteErr

C7_WitnessInternal ==
    /\ Done /\ call.op = "Handle" /\ ~HasOverride(call.ctx)
    /\ call.result = WriteErr

\* C8: no step changes a handler object that already exists (WithAttrs and
\* WithGroup only add objects), and a record that a router's internal
\* branch emits carries the configuration of the handler that router wrapped.
C8_DerivationKeepsOriginal ==
    [][/\ Len(heap') >= Len(heap)
       /\ \A h \in 1..Len(heap) : heap'[h] = heap[h]
       /\ (Len(call'.emits) > Len(call.emits) /\ ~HasOverride(call.ctx)) =>
             /\ call'.emits[Len(call'.emits)].h = heap[Root].internal
             /\ call'.emits[Len(call'.emits)].cfg = heap[heap[Root].internal].cfg]_vars

C8_Witness ==
    /\ derived.op # "none"
    /\ Done /\ call.op = "Handle" /\ ~HasOverride(call.ctx)
    /\ Root = derived.recv
    /\ heap[derived.recv].internal = derived.was
    /\ heap[derived.ret].internal # derived.was
    /\ call.emits[1].cfg = <<>>

\* C9: WithAttrs / WithGroup on a router with internal handler I returns a
\* router that is a new object, different from the receiver, whose internal
\* handler is I.WithAttrs(attrs) / I.WithGroup(name).
DerivedItem == IF derived.op = "WithAttrs" THEN AttrItem(derived.arg) ELSE GroupItem(derived.arg)

C9_ReturnsNewRouter ==
    derived.op # "none" =>
        /\ derived.ret # derived.recv
        /\ derived.isnew
        /\ derived.ret \in 1..Len(heap)
        /\ IsRouter(heap, derived.ret)
        /\ LET I == derived.was
               J == heap[derived.ret].internal
           IN  IF heap[I].kind = "slog"
               THEN /\ J # I
                    /\ heap[J] = [heap[I] EXCEPT !.cfg = Append(@, DerivedItem)]
               ELSE J = I

C9_Witness ==
    /\ derived.op = "WithGroup"
    /\ heap[derived.was].kind = "slog"
    /\ derived.ret # derived.recv
    /\ heap[derived.ret].internal # derived.was
    /\ heap[heap[derived.ret].internal].cfg = <<GroupItem("g")>>

\* C10: when a Handle call on a router derived with attributes or a group
\* goes to a distinct override logger, the record is written once with the
\* configuration of the override logger's handler alone.
DerivedRoot == Active /\ heap[heap[Root].internal].cfg # <<>>
OverrideCfg == IF IsRouter(heap, OvH) THEN heap[heap[OvH].internal].cfg ELSE heap[OvH].cfg

C10_OverrideConfigOnly ==
    (Done /\ call.op = "Handle" /\ DerivedRoot /\ OverrideIsLogger /\ OvH # Root
          /\ (IsRouter(heap, OvH) \/ IsBase(heap, OvH))) =>
        /\ Len(call.emits) = 1
        /\ call.emits[1].cfg = OverrideCfg

C10_Witness ==
    /\ Done /\ call.op = "Handle" /\ DerivedRoot /\ OverrideIsLogger /\ OvH # Root
    /\ call.emits[1].cfg = <<>>
    /\ heap[heap[Root].internal].cfg = <<AttrItem("a")>>

\* C11: FromContext never fails, whatever context it is given, the absent
\* (nil) context included: it returns the override logger when one is
\* attached and well-typed, and the default logger otherwise.
C11_FromContextNeverFails ==
    out.op = "FromContext" =>
       /\ ~out.panicked
       /\ out.logger = IF HasOverride(out.ctx) /\ Override(out.ctx).t = "logger"
                       THEN Override(out.ctx).h ELSE out.was

\* C12: the override follows the context hierarchy: the logger attached
\* nearest to the context of the call decides, so a child's logger shadows
\* its parent's and a child without one routes to its nearest ancestor's.
RECURSIVE Nearest(_)
Nearest(vals) ==
    IF vals = <<>> THEN NoHandler
    ELSE IF vals[Len(vals)].key = ContextLoggerKey THEN vals[Len(vals)].val.h
    ELSE Nearest(SubSeq(vals, 1, Len(vals) - 1))

C12_NearestOverrideDecides ==
    (Active /\ Len(call.path) >= 2 /\ ~call.ctx.isnil) =>
       call.path[2].h = IF Nearest(call.ctx.vals) \in {NoHandler, Root}
                        THEN heap[Root].internal
                        ELSE Nearest(call.ctx.vals)

\* a parent with logger 3, its child with logger 4, and the child's child
\* with no logger of its own: handler 4 writes
C12_Witness ==
    /\ Done /\ call.op = "Handle"
    /\ Len(call.ctx.vals) = 3
    /\ call.ctx.vals[1] = [key |-> ContextLoggerKey, val |-> LoggerValue(3)]
    /\ call.ctx.vals[2] = [key |-> ContextLoggerKey, val |-> LoggerValue(4)]
    /\ call.ctx.vals[3].key = OtherKey
    /\ OnlyLog(4)

\* C13: the handler a router delegates to is called with the context, the
\* level and the record the router itself was called with; a nil context
\* stays nil.
C13_SameArguments ==
    Active =>
       /\ \A i \in 1..Len(call.path) :
             call.path[i].ctx = call.ctx /\ call.path[i].level = call.level
       /\ \A i \in 1..Len(call.emits) :
             call.emits[i].ctx = call.ctx /\ call.emits[i].level = call.level

C13_Witness ==
    /\ Done /\ call.op = "Handle"
    /\ call.ctx.isnil /\ call.level = 4
    /\ Len(call.path) = 2
    /\ Len(call.emits) = 1
    /\ call.emits[1].ctx.isnil /\ call.emits[1].level = 4

\* C14: while a call on a router is in progress, derivations on the same
\* router never write its internal reference: the router still wraps the
\* handler it wrapped when the call began, and the call without override
\* is delegated to that handler.
C14_InternalNeverWritten ==
    Active =>
       /\ heap[Root].internal = call.internal
       /\ (Len(call.path) >= 2 /\ ~HasOverride(call.ctx)) =>
             call.path[2].h = call.internal

\* a derivation on the router of the call happened after the call began
C14_Witness ==
    /\ Done /\ ~HasOverride(call.ctx)
    /\ derived.op # "none"
    /\ derived.recv = Root
    /\ derived.ret > call.since
    /\ heap[derived.ret].internal # call.internal
    /\ call.path[2].h = call.internal

\* C15: the logger Build returns, for handler type json, text or discard,
\* sends a log call whose context carries a distinct override logger to the
\* override logger's handler.
BuiltType == ReadConfig(env).config.HandlerType
BuiltCall ==
    /\ Done /\ call.op = "Handle"
    /\ out.op \in {"Build", "Init"} /\ Root = out.logger
    /\ OverrideIsLogger /\ OvH # Root /\ IsBase(heap, OvH)

C15_BuiltLoggerHonoursOverride ==
    BuiltCall => OnlyLog(OvH)

\* C15 as the code has it: the json and text loggers send the call to the
\* override's handler; the discard logger drops it.
C15_WrappedLoggerHonoursOverride ==
    BuiltCall =>
       IF BuiltType = <<"d","i","s","c","a","r","d">>
       THEN \A g \in 1..Len(heap) : logs[g] = 0
       ELSE OnlyLog(OvH)

C15_Witness ==
    /\ BuiltCall
    /\ BuiltType = <<"j","s","o","n">>
    /\ heap[OvH].kind = "buffer"
    /\ call.path = <<Frame(Root, call.ctx, call.level), Frame(OvH, call.ctx, call.level)>>
    /\ OnlyLog(OvH)

C15_WitnessDiscard ==
    /\ BuiltCall
    /\ BuiltType = <<"d","i","s","c","a","r","d">>
    /\ heap[OvH].kind = "buffer"
    /\ logs[OvH] = 0

\* C16: with an override derived from the router-backed default logger by
\* With(attrs), a call through the default logger is written exactly once,
\* by the derived router's internal handler and with the attributes; a call
\* whose context has no override is written without them.
WithCall ==
    /\ Done /\ call.op = "Handle"
    /\ derived.op = "WithAttrs" /\ derived.recv = Root
    /\ heap[derived.was].kind = "slog"

C16_DerivedOverrideOnce ==
    WithCall =>
       /\ (OverrideIsLogger /\ OvH = derived.ret) =>
             /\ IsRouter(heap, OvH)
             /\ call.path = <<Frame(Root, call.ctx, call.level),
                              Frame(OvH, call.ctx, call.level),
                              Frame(heap[OvH].internal, call.ctx, call.level)>>
             /\ Len(call.emits) = 1
             /\ call.emits[1].h = heap[OvH].internal
             /\ call.emits[1].cfg = Append(heap[derived.was].cfg, AttrItem(derived.arg))
             /\ OnlyLog(heap[OvH].internal)
       /\ ~HasOverride(call.ctx) =>
             /\ Len(call.emits) = 1
             /\ call.emits[1].h = derived.was
             /\ call.emits[1].cfg = heap[derived.was].cfg
             /\ OnlyLog(derived.was)

C16_Witness ==
    /\ WithCall
    /\ OverrideIsLogger /\ OvH = derived.ret
    /\ Len(call.emits) = 1
    /\ call.emits[1].cfg = <<AttrItem(derived.arg)>>

C16_WitnessPlain ==
    /\ WithCall
    /\ ~HasOverride(call.ctx)
    /\ call.emits[1].cfg = <<>>

\* --------------------------------------------------- configuration claims
AnySet == isAnyLoggerEnvVarSet(env, Getenv(env, EnvPlanksEnvPrefix))
ConfigErr == ReadConfig(env).err
NoPanicSet == Getenv(env, EnvPlanksNoPanicOnError) # <<>>

\* C17: Build returns exactly one of a logger and an error: (nil,
\* ErrNoEnvVarSet) when no logger variable is set, (nil, err) when the
\* configuration is invalid or the writer cannot be opened, and
\* (logger, nil) otherwise.
C17_LoggerOrError ==
    out.op = "Build" =>
       /\ (out.logger = NoHandler) # (out.err = NoError)
       /\ IF ~AnySet THEN out.logger = NoHandler /\ out.err = "ErrNoEnvVarSet"
          ELSE IF ConfigErr # NoError THEN out.logger = NoHandler /\ out.err = ConfigErr
          ELSE IF out.opened = "failed"
          THEN out.logger = NoHandler /\ out.err = "ErrOpenFile"
          ELSE /\ out.err = NoError
               /\ out.logger \in 1..Len(heap)
               /\ heap[out.logger].kind \in {"router", "discard"}

C17_Witness ==
    /\ out.op = "Build"
    /\ ~AnySet
    /\ NoPanicSet
    /\ out.logger = NoHandler /\ out.err = "ErrNoEnvVarSet"

C17_WitnessOpen ==
    /\ out.op = "Build"
    /\ out.opened = "failed"
    /\ out.logger = NoHandler /\ out.err = "ErrOpenFile"

\* C18: Init leaves the default logger unchanged when no logger variable
\* is set (also when only PLANKS_NO_PANIC_ON_ERROR or PLANKS_ENV_PREFIX is
\* set), and replaces it with the built logger exactly when the
\* configuration is valid.
C18_ReplacedIffValid ==
    out.op = "Init" =>
       /\ ~AnySet => deflt = out.was
       /\ (AnySet /\ ConfigErr = NoError) <=>
             (out.logger # NoHandler /\ deflt = out.logger)

\* C18 as the code has it: the default logger is replaced exactly when
\* the configuration is valid and the writer could be opened.
C18_ReplacedIffBuilt ==
    out.op = "Init" =>
       /\ ~AnySet => deflt = out.was /\ out.logger = NoHandler /\ ~out.panicked
       /\ (AnySet /\ ConfigErr = NoError /\ out.opened # "failed") <=>
             (out.logger # NoHandler /\ deflt = out.logger)
       /\ out.logger = NoHandler => deflt = out.was

C18_Witness ==
    /\ out.op = "Init"
    /\ AnySet /\ ConfigErr = NoError
    /\ out.opened = "failed"
    /\ NoPanicSet
    /\ deflt = out.was

C18_WitnessOnlyPlanks ==
    /\ out.op = "Init"
    /\ ~AnySet /\ NoPanicSet /\ Getenv(env, EnvPlanksEnvPrefix) # <<>>
    /\ deflt = out.was

C18_WitnessReplaced ==
    /\ out.op = "Init"
    /\ out.logger # NoHandler /\ deflt = out.logger /\ deflt # out.was

\* C19: with an invalid configuration Init panics when
\* PLANKS_NO_PANIC_ON_ERROR is not set; when it is set Init returns
\* normally and the default logger is unchanged.
C19_PanicUnlessNoPanic ==
    (out.op = "Init" /\ ConfigErr # NoError) =>
       IF NoPanicSet THEN ~out.panicked /\ deflt = out.was
       ELSE out.panicked

C19_Witness ==
    /\ out.op = "Init" /\ ConfigErr # NoError
    /\ ~NoPanicSet
    /\ out.panicked

C19_WitnessNoPanic ==
    /\ out.op = "Init" /\ ConfigErr # NoError
    /\ NoPanicSet
    /\ ~out.panicked /\ deflt = out.was

\* C20: with PLANKS_ENV_PREFIX=P, P not empty, every logger variable is
\* read only under the name P_NAME: the unprefixed variables have no
\* effect on what ReadConfig returns, the nil "nothing configured" result
\* included.
\* the environment without its unprefixed logger variables
Scrubbed(e) == [n \in DOMAIN e |-> IF n \in PlainNames THEN <<>> ELSE e[n]]
\* the environment with the APP_ values under the unprefixed names, no prefix
Unprefixed(e) ==
    [n \in DOMAIN e |->
        IF n = EnvPlanksEnvPrefix THEN <<>>
        ELSE IF n \in PlainNames THEN e[PrefixedName(AppPrefix, n)]
        ELSE e[n]]
LastConfig == ConfigResult(out.isnil, out.config, out.err)

C20_PrefixedNamesOnly ==
    (out.op = "ReadConfig" /\ Getenv(env, EnvPlanksEnvPrefix) = AppPrefix) =>
       /\ LastConfig = ReadConfig(Scrubbed(env))
       /\ LastConfig = ReadConfig(Unprefixed(env))

C20_Witness ==
    /\ out.op = "ReadConfig" /\ Getenv(env, EnvPlanksEnvPrefix) = AppPrefix
    /\ \A n \in PlainNames : env[n] # <<>>
    /\ \A n \in AppNames : env[n] = <<>>
    /\ out.isnil /\ out.err = NoError

C20_WitnessPrefixed ==
    /\ out.op = "ReadConfig" /\ Getenv(env, EnvPlanksEnvPrefix) = AppPrefix
    /\ \A n \in PlainNames : env[n] # <<>>
    /\ ~out.isnil
    /\ out.config.Level = -4
    /\ out.config.HandlerType = <<"j","s","o","n">>

\* ------------------------------------------------ ReadConfig in detail
\* the values ReadConfig sees, under the prefix in force
Var(key) == getEnv(env, Getenv(env, EnvPlanksEnvPrefix), key)
Digits07 == {"0","1","2","3","4","5","6","7"}
LevelBad ==
    /\ Var(EnvLoggerLevel) # <<>>
    /\ ToLower(Var(EnvLoggerLevel)) \notin
          {<<"d","e","b","u","g">>, <<"i","n","f","o">>, <<"w","a","r","n">>,
           <<"e","r","r","o","r">>}
HandlerBad ==
    /\ Var(EnvLoggerHandler) # <<>>
    /\ ToUpper(Var(EnvLoggerHandler)) \notin
          {<<"J","S","O","N">>, <<"T","E","X","T">>, <<"D","I","S","C","A","R","D">>}
WriterBad ==
    /\ Var(EnvLoggerWriter) # <<>>
    /\ ToUpper(Var(EnvLoggerWriter)) \notin
          {<<"S","T","D","O","U","T">>, <<"S","T","D","E","R","R">>, <<"F","I","L","E">>}
WriterIsFile == ToUpper(Var(EnvLoggerWriter)) = <<"F","I","L","E">>
PathMissing == WriterIsFile /\ Var(EnvLoggerWriterFilePath) = <<>>
PermBad ==
    /\ WriterIsFile
    /\ Var(EnvLoggerWriterFilePerm) # <<>>
    /\ \E i \in 1..Len(Var(EnvLoggerWriterFilePerm)) :
          Var(EnvLoggerWriterFilePerm)[i] \notin Digits07
Failures ==
    <<[bad |-> LevelBad, err |-> "ErrInvalidLevel"],
      [bad |-> HandlerBad, err |-> "ErrInvalidHandlerType"],
      [bad |-> WriterBad, err |-> "ErrInvalidWriterType"],
      [bad |-> PathMissing, err |-> "ErrMissingFilePath"],
      [bad |-> PermBad, err |-> "ErrInvalidFilePermission"]>>
BadIn(f) == {i \in 1..Len(f) : f[i].bad}
BadOnes == BadIn(Failures)
ReadDone == out.op = "ReadConfig" /\ AnySet

\* C21: ReadConfig maps each invalid input to its typed error and returns
\* a nil config with it: an error is returned only for an input that is
\* invalid in that way, an input that alone is invalid gets its own error,
\* and a valid input (in any letter case) gets none.
C21_TypedErrors ==
    ReadDone =>
       \E f \in {Failures} :
          /\ out.err # NoError => out.isnil
          /\ \A i \in 1..Len(f) :
                /\ out.err = f[i].err => f[i].bad
                /\ BadIn(f) = {i} => out.err = f[i].err
          /\ BadIn(f) = {} => out.err = NoError /\ ~out.isnil

C21_Witness ==
    /\ ReadDone
    /\ BadOnes = {5}
    /\ out.err = "ErrInvalidFilePermission" /\ out.isnil

C21_WitnessCase ==
    /\ ReadDone
    /\ Var(EnvLoggerHandler) = <<"J","S","O","N">>
    /\ Var(EnvLoggerWriter) = <<"F","i","l","e">>
    /\ out.err = NoError /\ ~out.isnil

\* C22: whenever ReadConfig returns a config, every field whose variable is
\* unset holds its default: level info, handler text, writer stderr,
\* permission 0644, add-source false, no-append false.
C22_Defaults ==
    (out.op = "ReadConfig" /\ ~out.isnil) =>
       /\ Var(EnvLoggerLevel) = <<>> => out.config.Level = 0
       /\ Var(EnvLoggerAddSource) = <<>> => out.config.AddSource = FALSE
       /\ Var(EnvLoggerHandler) = <<>> => out.config.HandlerType = <<"t","e","x","t">>
       /\ Var(EnvLoggerWriter) = <<>> => out.config.WriterType = <<"s","t","d","e","r","r">>
       /\ Var(EnvLoggerWriterNoAppend) = <<>> => out.config.WriterFileNoAppend = FALSE
       /\ Var(EnvLoggerWriterFilePerm) = <<>> => out.config.WriterFilePerm = 420

\* only LOGGER_ADD_SOURCE is set
C22_Witness ==
    /\ out.op = "ReadConfig" /\ ~out.isnil
    /\ \A i \in 1..Len(LoggerEnvVars) :
          (Var(LoggerEnvVars[i]) # <<>>) <=> (LoggerEnvVars[i] = EnvLoggerAddSource)
    /\ out.config.AddSource
    /\ out.config.HandlerType = <<"t","e","x","t">>
    /\ out.config.WriterFilePerm = 420

\* C26: with several variables invalid at once ReadConfig reports the first
\* failure in the order level, handler type, writer type, missing file
\* path, file permission, and returns no config with it.
C26_FirstFailure ==
    ReadDone =>
       \E f \in {Failures} :
          BadIn(f) # {} =>
             /\ out.err = f[CHOOSE i \in BadIn(f) : \A j \in BadIn(f) : i <= j].err
             /\ out.isnil /\ out.config = ZeroConfig

C26_Witness ==
    /\ ReadDone
    /\ BadOnes = {1, 2, 3}
    /\ out.err = "ErrInvalidLevel"

C26_WitnessFile ==
    /\ ReadDone
    /\ BadOnes = {4, 5}
    /\ out.err = "ErrMissingFilePath"

\* C27: the file variables count only when the resolved writer type is
\* file: with stdout or stderr, given or by default, a set path is not
\* stored, a bad permission raises no error and the config keeps path
\* empty, no-append false and permission 0644; yet a file variable set
\* alone is enough for ReadConfig to return a config.
FileVars == {EnvLoggerWriterFilePath, EnvLoggerWriterNoAppend, EnvLoggerWriterFilePerm}
FileVarSet == \E k \in FileVars : Var(k) # <<>>

C27_FileVarsOnlyForFile ==
    out.op = "ReadConfig" =>
       /\ (~out.isnil /\ out.config.WriterType # <<"f","i","l","e">>) =>
             /\ out.config.WriterFilePath = <<>>
             /\ out.config.WriterFileNoAppend = FALSE
             /\ out.config.WriterFilePerm = 420
       /\ (~WriterIsFile /\ ~LevelBad /\ ~HandlerBad /\ ~WriterBad /\ FileVarSet) =>
             /\ out.err = NoError /\ ~out.isnil
             /\ out.config.WriterType # <<"f","i","l","e">>

\* only the three file variables are set, the permission is not octal
C27_Witness ==
    /\ out.op = "ReadConfig"
    /\ \A i \in 1..Len(LoggerEnvVars) :
          (Var(LoggerEnvVars[i]) # <<>>) <=> (LoggerEnvVars[i] \in FileVars)
    /\ Var(EnvLoggerWriterFilePerm) = <<"9">>
    /\ ~out.isnil /\ out.err = NoError
    /\ out.config.WriterType = <<"s","t","d","e","r","r">>
    /\ out.config.WriterFilePath = <<>>

\* ------------------------------------------------------- routing, the rest
BadOverride == HasOverride(call.ctx) /\ Override(call.ctx).t \in {"string", "nilptr"}

\* C23: with a value under the override key that is not a logger, or is a
\* nil logger pointer, Enabled and Handle both delegate to the internal
\* handler, as with no override at all.
C23_BadOverrideToInternal ==
    (Active /\ BadOverride) =>
       /\ Len(call.path) <= 2
       /\ Len(call.path) = 2 => call.path[2] = Frame(heap[Root].internal, call.ctx, call.level)
       /\ (Done /\ call.op = "Handle") => OnlyLog(heap[Root].internal)
       /\ (Done /\ call.op = "Enabled") => \A g \in 1..Len(heap) : logs[g] = 0

C23_Witness ==
    /\ Done /\ call.op = "Handle"
    /\ Override(call.ctx) = NilLoggerPtr
    /\ call.path[2].h = heap[Root].internal
    /\ logs[heap[Root].internal] = 1

C23_WitnessEnabled ==
    /\ Done /\ call.op = "Enabled"
    /\ Override(call.ctx) = NotALogger
    /\ call.path[2].h = heap[Root].internal

\* C24: the internal handler of every router is a base handler, never a
\* router.
C24_InternalIsBase ==
    \A r \in Routers :
       /\ heap[r].internal \in 1..Len(heap)
       /\ IsBase(heap, heap[r].internal)
       /\ ~IsRouter(heap, heap[r].internal)

\* a router derived from a derived router's sibling: two derivations exist
C24_Witness ==
    /\ Cardinality(Routers) >= 2
    /\ derived.isnew
    /\ heap[derived.ret].internal # derived.was
    /\ IsBase(heap, heap[derived.ret].internal)
    /\ heap[heap[derived.ret].internal].cfg # <<>>

\* C25: every Handle or Enabled call terminates, after at most two router
\* frames before a base handler is reached.
RouterFrames == {i \in 1..Len(call.path) : IsRouter(heap, call.path[i].h)}

====
